---- MODULE Spec2Model ----
(***************************************************************************)
(* Batch URL Screenshot Tool (script.js): a model of argument validation,  *)
(* URL ingestion, filename derivation and the sequential batch loop.       *)
(*                                                                         *)
(* Strings are sequences of one-character strings.  A JavaScript number is *)
(* a record [kind, v]: kind "num" with integer value v, kind "nan" for NaN *)
(* (what yargs yields for a value that does not parse as a number), kind   *)
(* "undef" for an option that was not given.                               *)
(***************************************************************************)
EXTENDS Integers, Sequences, FiniteSets

\* ------------------------------------------------------------------------
\* JavaScript numbers
\* ------------------------------------------------------------------------

Num(n) == [kind |-> "num", v |-> n]

NaN == [kind |-> "nan", v |-> 0]

Undef == [kind |-> "undef", v |-> 0]

\* a < b, a > b on JavaScript numbers: every comparison with NaN (or with
\* undefined, which converts to NaN) is false
JsLt(a, b) == a.kind = "num" /\ b.kind = "num" /\ a.v < b.v

JsGt(a, b) == a.kind = "num" /\ b.kind = "num" /\ a.v > b.v

JsLe(a, b) == a.kind = "num" /\ b.kind = "num" /\ a.v <= b.v

\* isNaN(x): true for NaN and for undefined
JsIsNaN(a) == a.kind # "num"

\* truthiness of a number-or-undefined value: 0, NaN and undefined are falsy
JsTruthy(a) == a.kind = "num" /\ a.v # 0

\* ------------------------------------------------------------------------
\* Characters and strings
\* ------------------------------------------------------------------------

Digits == <<"0", "1", "2", "3", "4", "5", "6", "7", "8", "9">>

LowerLetters == <<"a", "b", "c", "d", "e", "f", "g", "h", "i", "j", "k", "l", "m",
                  "n", "o", "p", "q", "r", "s", "t", "u", "v", "w", "x", "y", "z">>

UpperLetters == <<"A", "B", "C", "D", "E", "F", "G", "H", "I", "J", "K", "L", "M",
                  "N", "O", "P", "Q", "R", "S", "T", "U", "V", "W", "X", "Y", "Z">>

Range(s) == {s[k] : k \in 1..Len(s)}

IsDigit(c) == c \in Range(Digits)

IsAlpha(c) == c \in Range(LowerLetters) \cup Range(UpperLetters)

\* the character class [a-z0-9] under the i flag
IsAlnum(c) == IsAlpha(c) \/ IsDigit(c)

\* the character class \s, and what String.prototype.trim strips
IsSpace(c) == c \in {" ", "\t", "\n", "\r"}

ToLowerChar(c) ==
    IF c \in Range(UpperLetters)
    THEN LowerLetters[CHOOSE k \in 1..26 : UpperLetters[k] = c]
    ELSE c

ToLower(s) == [k \in 1..Len(s) |-> ToLowerChar(s[k])]

Min(a, b) == IF a < b THEN a ELSE b

Max(a, b) == IF a > b THEN a ELSE b

\* s repeated n times
Rep(s, n) == [k \in 1..(Max(n, 0) * Len(s)) |-> s[((k - 1) % Len(s)) + 1]]

\* the 1-based characters from..to of s, empty when the range is empty
Slice(s, from, to) ==
    IF from > to THEN <<>> ELSE SubSeq(s, Max(from, 1), Min(to, Len(s)))

\* String.prototype.startsWith
StartsWith(s, p) == Len(p) <= Len(s) /\ SubSeq(s, 1, Len(p)) = p

EndsWith(s, p) == Len(p) <= Len(s) /\ SubSeq(s, Len(s) - Len(p) + 1, Len(s)) = p

\* 1-based position of the first occurrence of p in s, 0 when there is none
IndexOf(s, p) ==
    LET hits == {k \in 1..(Len(s) - Len(p) + 1) : SubSeq(s, k, k + Len(p) - 1) = p}
    IN  IF hits = {} THEN 0 ELSE CHOOSE k \in hits : \A j \in hits : k <= j

\* 1-based position of the first character of s that is in set cs, 0 if none
IndexOfAny(s, cs) ==
    LET hits == {k \in 1..Len(s) : s[k] \in cs}
    IN  IF hits = {} THEN 0 ELSE CHOOSE k \in hits : \A j \in hits : k <= j

LastIndexOfAny(s, cs) ==
    LET hits == {k \in 1..Len(s) : s[k] \in cs}
    IN  IF hits = {} THEN 0 ELSE CHOOSE k \in hits : \A j \in hits : k >= j

\* String.prototype.replace(pattern, replacement) with a STRING pattern:
\* only the first occurrence is replaced, wherever it is
ReplaceFirst(s, pat, rep) ==
    LET k == IndexOf(s, pat)
    IN  IF k = 0 THEN s
        ELSE Slice(s, 1, k - 1) \o rep \o Slice(s, k + Len(pat), Len(s))

\* String.prototype.substring(0, n) for a JavaScript number n: NaN counts as
\* 0, and the end is clamped to [0, length]
Substring0(s, n) ==
    IF n.kind # "num" THEN <<>> ELSE Slice(s, 1, Min(Max(n.v, 0), Len(s)))

\* String.prototype.trim
TrimLeft(s) ==
    LET solid == {k \in 1..Len(s) : ~IsSpace(s[k])}
    IN  IF solid = {} THEN <<>>
        ELSE SubSeq(s, CHOOSE k \in solid : \A j \in solid : k <= j, Len(s))

TrimRight(s) ==
    LET solid == {k \in 1..Len(s) : ~IsSpace(s[k])}
    IN  IF solid = {} THEN <<>>
        ELSE SubSeq(s, 1, CHOOSE k \in solid : \A j \in solid : k >= j)

Trim(s) == TrimRight(TrimLeft(s))

\* String(n) for a natural number n
RECURSIVE StringOfNumber(_)
StringOfNumber(n) ==
    IF n < 10 THEN <<Digits[n + 1]>> ELSE StringOfNumber(n \div 10) \o <<Digits[(n % 10) + 1]>>

\* String.prototype.padStart(n, c)
PadStart(s, n, c) == Rep(<<c>>, n - Len(s)) \o s

\* String.prototype.split('\n')
RECURSIVE Split(_)
Split(s) ==
    LET k == IndexOf(s, <<"\n">>)
    IN  IF k = 0 THEN <<s>> ELSE <<Slice(s, 1, k - 1)>> \o Split(Slice(s, k + 1, Len(s)))

\* ------------------------------------------------------------------------
\* readUrls: the lines of the file, trimmed, without the empty lines and the
\* lines that start with '#'
\* ------------------------------------------------------------------------

Hash == <<"#">>

\* line => line && !line.startsWith('#')
KeepLine(line) == line # <<>> /\ ~StartsWith(line, Hash)

RECURSIVE FilterLines(_)
FilterLines(lines) ==
    IF lines = <<>> THEN <<>>
    ELSE (IF KeepLine(Head(lines)) THEN <<Head(lines)>> ELSE <<>>)
           \o FilterLines(Tail(lines))

ParseUrls(content) ==
    LET lines == Split(content)
    IN  FilterLines([k \in 1..Len(lines) |-> Trim(lines[k])])

\* ------------------------------------------------------------------------
\* new URL(value).hostname, for the characters the model's labels are made
\* of (ASCII letters, digits, and . : / ? # @ _ - space): no percent
\* escapes, no IDNA, no numeric (IPv4) hosts.  Result: [ok, hostname];
\* ok = FALSE is the TypeError the constructor throws.
\* ------------------------------------------------------------------------

UrlFailure == [ok |-> FALSE, hostname |-> <<>>]

SchemeChars == Range(LowerLetters) \cup Range(UpperLetters) \cup Range(Digits)
                 \cup {"+", "-", "."}

\* code points a host may not contain
ForbiddenHostChars == {" ", "#", "/", ":", "<", ">", "?", "@", "[", "\\", "]", "^", "|", "%"}

\* the authority's host: user info (up to the last @) and the port (from the
\* first :) are dropped; a port must be digits
HostOfAuthority(auth) ==
    LET at   == LastIndexOfAny(auth, {"@"})
        hp   == Slice(auth, at + 1, Len(auth))
        col  == IndexOfAny(hp, {":"})
        host == IF col = 0 THEN hp ELSE Slice(hp, 1, col - 1)
        port == IF col = 0 THEN <<>> ELSE Slice(hp, col + 1, Len(hp))
    IN  [host |-> host, portOk |-> \A k \in 1..Len(port) : IsDigit(port[k])]

SkipSlashes(s) ==
    LET other == {k \in 1..Len(s) : s[k] \notin {"/", "\\"}}
    IN  IF other = {} THEN <<>>
        ELSE SubSeq(s, CHOOSE k \in other : \A j \in other : k <= j, Len(s))

UrlHostname(value) ==
    LET input  == Trim(value)
        colon  == IndexOfAny(input, {":"})
        scheme == ToLower(Slice(input, 1, colon - 1))
        rest   == Slice(input, colon + 1, Len(input))
    IN  IF colon <= 1 \/ ~IsAlpha(input[1])
           \/ \E k \in 1..(colon - 1) : input[k] \notin SchemeChars
        THEN UrlFailure                      \* no scheme, and there is no base URL
        ELSE IF scheme \in {<<"h", "t", "t", "p">>, <<"h", "t", "t", "p", "s">>}
        THEN \* special scheme: any run of slashes precedes the authority
             LET after == SkipSlashes(rest)
                 stop  == IndexOfAny(after, {"/", "\\", "?", "#"})
                 auth  == IF stop = 0 THEN after ELSE Slice(after, 1, stop - 1)
                 hp    == HostOfAuthority(auth)
             IN  IF hp.host = <<>> \/ ~hp.portOk
                    \/ \E k \in 1..Len(hp.host) : hp.host[k] \in ForbiddenHostChars
                 THEN UrlFailure
                 ELSE [ok |-> TRUE, hostname |-> ToLower(hp.host)]
        ELSE IF StartsWith(rest, <<"/", "/">>)
        THEN \* another scheme with an authority: the host is kept as written
             LET after == Slice(rest, 3, Len(rest))
                 stop  == IndexOfAny(after, {"/", "?", "#"})
                 auth  == IF stop = 0 THEN after ELSE Slice(after, 1, stop - 1)
                 hp    == HostOfAuthority(auth)
             IN  IF ~hp.portOk
                    \/ \E k \in 1..Len(hp.host) : hp.host[k] \in ForbiddenHostChars
                 THEN UrlFailure
                 ELSE [ok |-> TRUE, hostname |-> hp.host]
        ELSE [ok |-> TRUE, hostname |-> <<>>]   \* opaque path: no host

\* ------------------------------------------------------------------------
\* trimValue(value, maxLength)
\* ------------------------------------------------------------------------

Www == <<"w", "w", "w", ".">>

Http == <<"h", "t", "t", "p">>

\* url.hostname.replace('www.', '')
DomainOf(hostname) == ReplaceFirst(hostname, Www, <<>>)

trimValue(value, maxLength) ==
    IF JsLe(Num(Len(value)), maxLength) THEN value
    ELSE LET url == UrlHostname(value)
             domain == DomainOf(url.hostname)
         IN  IF StartsWith(value, Http) /\ url.ok /\ JsLe(Num(Len(domain)), maxLength)
             THEN domain
             ELSE Substring0(value, maxLength)

\* ------------------------------------------------------------------------
\* The filename of takeScreenshot
\* ------------------------------------------------------------------------

\* .replace(/[^a-z0-9]/gmi, "_")
ReplaceNonAlnum(s) == [k \in 1..Len(s) |-> IF IsAlnum(s[k]) THEN s[k] ELSE "_"]

\* .replace(/\s+/g, "_"): every maximal run of whitespace becomes one "_"
IsKept(c) == c # "dropped"

ReplaceWhitespaceRuns(s) ==
    LET marked == [k \in 1..Len(s) |->
                     IF ~IsSpace(s[k]) THEN s[k]
                     ELSE IF k > 1 /\ IsSpace(s[k - 1]) THEN "dropped"
                     ELSE "_"]
    IN  SelectSeq(marked, IsKept)

\* filenameBase.replace(/[^a-z0-9]/gmi, "_").replace(/\s+/g, "_")
Sanitize(filenameBase) == ReplaceWhitespaceRuns(ReplaceNonAlnum(filenameBase))

MAX_FILENAME_LENGTH == 255

PadWidth == 4

ExtAndDimensions == 8

Png == <<".", "p", "n", "g">>

Px == <<"p", "x">>

PaddedIndex(index) == PadStart(StringOfNumber(index), PadWidth, "0")

\* a reserve that counts the index and its "_" only
ReservedLengthNoExt(paddedIndex) == Len(paddedIndex) + 1

\* paddedIndex.length + 1 + 8
ReservedLength(paddedIndex) == Len(paddedIndex) + 1 + ExtAndDimensions

\* `${filename}_${viewportWidth}px_${actualHeight}px`; widthText and
\* heightText are the decimal texts of the two numbers
WithDimensions(filename, widthText, heightText) ==
    filename \o <<"_">> \o widthText \o Px \o <<"_">> \o heightText \o Px

\* the part between the index prefix and the extension, cut to what is left
\* of MAX_FILENAME_LENGTH
FilenameMiddle(filenameBase, trimLength, index, widthText, heightText) ==
    LET filename == WithDimensions(Sanitize(trimValue(filenameBase, trimLength)),
                                   widthText, heightText)
        reservedLength == ReservedLength(PaddedIndex(index))
    IN  IF reservedLength + Len(filename) > MAX_FILENAME_LENGTH
        THEN Slice(filename, 1, MAX_FILENAME_LENGTH - reservedLength)
        ELSE filename

\* paddedIndex + "_" + filename + '.png'
Filename(filenameBase, trimLength, index, widthText, heightText) ==
    PaddedIndex(index) \o <<"_">>
      \o FilenameMiddle(filenameBase, trimLength, index, widthText, heightText) \o Png

\* ------------------------------------------------------------------------
\* State
\* ------------------------------------------------------------------------

VARIABLES
    pc,               \* where the process is
    argv,             \* the parsed options: trim, delay, width, height, name
    source,           \* the source file: [readable, content]
    fileRead,         \* readUrls has read the file
    urls,             \* what readUrls returned
    exitCode,         \* the status the process ends with (0 unless exit(1) is called)
    browser,          \* "none", "open", "closed"
    closeCount,       \* calls of browser.close
    pages,            \* indexes of the pages opened and not closed by page.close
    openedAfterClose, \* a page was opened after browser.close
    i,                \* the loop variable of main
    started,          \* indexes takeScreenshot was called with, in call order
    returned,         \* the values takeScreenshot returned, in order
    pauses,           \* indexes after which main slept
    successCount,
    errorCount,
    thrown,           \* the step whose error is propagating, "none" if none
    filename,         \* the name takeScreenshot built for the current URL
    summaryPrinted,
    fnIn,             \* the arguments of a function applied on its own
    fnOp,             \* which function was applied, "none" before
    fnOut             \* its result

vars == <<pc, argv, source, fileRead, urls, exitCode, browser, closeCount, pages,
          openedAfterClose, i, started, returned, pauses, successCount, errorCount,
          thrown, filename, summaryPrinted, fnIn, fnOp, fnOut>>

cfgVars == <<argv, source>>

fnVars == <<fnIn, fnOp, fnOut>>

browserVars == <<browser, closeCount, openedAfterClose>>

loopVars == <<i, started, returned, pauses, successCount, errorCount>>

\* ------------------------------------------------------------------------
\* Inputs
\* ------------------------------------------------------------------------

TrimMin == 8

TrimMax == 200

MaxLines == 3

LongPad == 240

Url1 == <<"h", "t", "t", "p", ":", "/", "/", "w", "w", "w", ".", "a", "b", ".", "c", "d", "/", "p">>

Url2 == <<"h", "t", "t", "p", "s", ":", "/", "/", "x", "w", "w", "w", ".", "e", ".", "f", "g", "/">>

LineSet == { <<" ", "\r">>,
             <<"#", "c">>,
             <<" ">> \o Url1 \o <<" ">>,
             Url2 }

RECURSIVE JoinLines(_)
JoinLines(lines) ==
    IF lines = <<>> THEN <<>> ELSE Head(lines) \o <<"\n">> \o JoinLines(Tail(lines))

Sources ==
    {[readable |-> FALSE, content |-> <<>>]}
      \cup {[readable |-> TRUE, content |-> JoinLines(ls)] :
              ls \in UNION {[1..n -> LineSet] : n \in 0..MaxLines}}

TrimValues == {NaN, Num(TrimMin - 1), Num(TrimMin), Num(TrimMax + 1)}

DelayValues == {NaN, Num(-1), Num(0), Num(500)}

WidthValues == {NaN, Num(0), Num(1024)}

HeightValues == {Undef, Num(768)}

NameValues == {"title", "url"}

Titles == { <<"a", " ", " ", "b">>, <<"D", "o", "c", "s", ":", " ", "h", "o", "m", "e">> }

\* ------------------------------------------------------------------------
\* Startup: the yargs check, the width check of main, readUrls, launch
\* ------------------------------------------------------------------------

Exit(code) == pc' = "exit" /\ exitCode' = code

\* .check((argv) => ...): a throw makes yargs print the message and exit 1
CheckPasses(a) ==
    /\ ~(JsLt(a.trim, Num(TrimMin)) \/ JsGt(a.trim, Num(TrimMax)))
    /\ ~JsLt(a.delay, Num(0))

Check ==
    /\ pc = "check"
    /\ IF CheckPasses(argv) THEN pc' = "main" /\ exitCode' = exitCode ELSE Exit(1)
    /\ UNCHANGED <<cfgVars, fileRead, urls, browserVars, pages, loopVars, thrown,
                   filename, summaryPrinted, fnVars>>

\* if (isNaN(width) || width < 1) process.exit(1)
ValidateWidth ==
    /\ pc = "main"
    /\ IF JsIsNaN(argv.width) \/ JsLt(argv.width, Num(1))
       THEN Exit(1)
       ELSE pc' = "readUrls" /\ exitCode' = exitCode
    /\ UNCHANGED <<cfgVars, fileRead, urls, browserVars, pages, loopVars, thrown,
                   filename, summaryPrinted, fnVars>>

ReadUrls ==
    /\ pc = "readUrls"
    /\ IF source.readable
       THEN /\ urls' = ParseUrls(source.content)
            /\ fileRead' = TRUE
            /\ pc' = "launch"
            /\ exitCode' = exitCode
       ELSE /\ Exit(1)
            /\ UNCHANGED <<urls, fileRead>>
    /\ UNCHANGED <<cfgVars, browserVars, pages, loopVars, thrown, filename,
                   summaryPrinted, fnVars>>

\* await puppeteer.launch(...); the counters are set right after it
Launch ==
    /\ pc = "launch"
    /\ \E ok \in BOOLEAN :
         IF ok
         THEN /\ browser' = "open"
              /\ successCount' = 0
              /\ errorCount' = 0
              /\ pc' = "loop"
              /\ thrown' = thrown
         ELSE /\ thrown' = "launch"
              /\ pc' = "catch"
              /\ UNCHANGED <<browser, successCount, errorCount>>
    /\ UNCHANGED <<cfgVars, fileRead, urls, exitCode, closeCount, openedAfterClose,
                   pages, i, started, returned, pauses, filename, summaryPrinted,
                   fnVars>>

\* ------------------------------------------------------------------------
\* The batch loop of main
\* ------------------------------------------------------------------------

\* an error leaves takeScreenshot and the loop: control goes to the finally
\* block of main
Throw(step) == thrown' = step /\ pc' = "finally"

\* for (let i = 0; i < urls.length; i++) { const url = urls[i].trim(); if (url) ...
LoopHead ==
    /\ pc = "loop"
    /\ IF i < Len(urls)
       THEN IF Trim(urls[i + 1]) # <<>>
            THEN /\ started' = Append(started, i + 1)
                 /\ pc' = "newPage"
                 /\ i' = i
            ELSE /\ i' = i + 1
                 /\ UNCHANGED <<started, pc>>
       ELSE /\ pc' = "finally"
            /\ UNCHANGED <<started, i>>
    /\ UNCHANGED <<cfgVars, fileRead, urls, exitCode, browserVars, pages, returned,
                   pauses, successCount, errorCount, thrown, filename, summaryPrinted,
                   fnVars>>

\* a guard that also lets the last URL be followed by a pause
ShouldDelayAfterLast(delay, idx, n) == JsGt(delay, Num(0)) /\ idx < n

\* if (delay > 0 && i < urls.length - 1)
ShouldDelay(delay, idx, n) == JsGt(delay, Num(0)) /\ idx < n - 1

\* a count that forgets the failures
ReturnCountsSuccessOnly(success) ==
    /\ returned' = Append(returned, success)
    /\ successCount' = IF success THEN successCount + 1 ELSE successCount
    /\ errorCount' = errorCount
    /\ IF ShouldDelay(argv.delay, i, Len(urls))
       THEN pc' = "sleep" /\ i' = i
       ELSE pc' = "loop" /\ i' = i + 1
    /\ filename' = <<>>
    /\ UNCHANGED <<started, pauses>>

\* takeScreenshot returned `success` (its locals are gone): count it, then
\* sleep or go on
Return(success) ==
    /\ returned' = Append(returned, success)
    /\ successCount' = IF success THEN successCount + 1 ELSE successCount
    /\ errorCount' = IF success THEN errorCount ELSE errorCount + 1
    /\ IF ShouldDelay(argv.delay, i, Len(urls))
       THEN pc' = "sleep" /\ i' = i
       ELSE pc' = "loop" /\ i' = i + 1
    /\ filename' = <<>>
    /\ UNCHANGED <<started, pauses>>

\* await sleep(delay), then the loop's i++
Sleep ==
    /\ pc = "sleep"
    /\ pauses' = Append(pauses, i + 1)
    /\ i' = i + 1
    /\ pc' = "loop"
    /\ UNCHANGED <<cfgVars, fileRead, urls, exitCode, browserVars, pages, started,
                   returned, successCount, errorCount, thrown, filename,
                   summaryPrinted, fnVars>>

\* ------------------------------------------------------------------------
\* takeScreenshot, one action per await; every call of the rendering
\* library either returns or throws
\* ------------------------------------------------------------------------

tsFrame == <<cfgVars, fileRead, urls, exitCode, summaryPrinted, fnVars>>

\* const page = await browser.newPage()
NewPage ==
    /\ pc = "newPage"
    /\ \E ok \in BOOLEAN :
         IF ok
         THEN /\ pages' = pages \cup {i + 1}
              /\ openedAfterClose' = (openedAfterClose \/ browser = "closed")
              /\ pc' = "setViewport"
              /\ thrown' = thrown
         ELSE /\ Throw("newPage")
              /\ UNCHANGED <<pages, openedAfterClose>>
    /\ UNCHANGED <<tsFrame, browser, closeCount, loopVars, filename>>

\* await page.setViewport(...)
SetViewport ==
    /\ pc = "setViewport"
    /\ \E ok \in BOOLEAN :
         IF ok THEN pc' = "goto" /\ thrown' = thrown ELSE Throw("setViewport")
    /\ UNCHANGED <<tsFrame, browserVars, pages, loopVars, filename>>

\* a goto whose error is not caught
GotoRethrows ==
    /\ pc = "goto"
    /\ \E ok \in BOOLEAN :
         IF ok THEN pc' = "scroll" /\ thrown' = thrown ELSE Throw("goto")
    /\ UNCHANGED <<tsFrame, browserVars, pages, loopVars, filename>>

\* try { await page.goto(...) } catch { ...; await page.close(); return false }
Goto ==
    /\ pc = "goto"
    /\ \E ok \in BOOLEAN :
         pc' = IF ok THEN "scroll" ELSE "closeAfterGoto"
    /\ UNCHANGED <<tsFrame, browserVars, pages, loopVars, thrown, filename>>

\* the page.close() of the goto catch block, then return false
ClosePageAfterGotoFailure ==
    /\ pc = "closeAfterGoto"
    /\ \E ok \in BOOLEAN :
         IF ok
         THEN /\ pages' = pages \ {i + 1}
              /\ Return(FALSE)
              /\ thrown' = thrown
         ELSE /\ Throw("pageClose")
              /\ UNCHANGED <<pages, loopVars, filename>>
    /\ UNCHANGED <<tsFrame, browserVars>>

\* await page.evaluate(<the scroll script>)
ScrollPage ==
    /\ pc = "scroll"
    /\ \E ok \in BOOLEAN :
         IF ok THEN pc' = "settle" /\ thrown' = thrown ELSE Throw("scroll")
    /\ UNCHANGED <<tsFrame, browserVars, pages, loopVars, filename>>

\* await page.evaluate(() => new Promise(r => setTimeout(r, 1000)))
SettleWait ==
    /\ pc = "settle"
    /\ \E ok \in BOOLEAN :
         IF ok THEN pc' = "title" /\ thrown' = thrown ELSE Throw("settle")
    /\ UNCHANGED <<tsFrame, browserVars, pages, loopVars, filename>>

\* const actualHeight = viewportHeight || Math.floor(viewportWidth * 0.75)
ActualHeight(width, height) ==
    IF JsTruthy(height) THEN height.v ELSE (width.v * 3) \div 4

\* filenameOption === 'url' ? url : await page.title(), then the filename
BuildFilename ==
    /\ pc = "title"
    /\ \E ok \in BOOLEAN, title \in Titles :
         LET url == Trim(urls[i + 1])
             filenameBase == IF argv.name = "url" THEN url ELSE title
         IN  IF ok \/ argv.name = "url"
             THEN /\ filename' = Filename(filenameBase, argv.trim, i + 1,
                                          StringOfNumber(argv.width.v),
                                          StringOfNumber(ActualHeight(argv.width, argv.height)))
                  /\ pc' = "screenshot"
                  /\ thrown' = thrown
             ELSE /\ Throw("title")
                  /\ filename' = filename
    /\ UNCHANGED <<tsFrame, browserVars, pages, loopVars>>

\* try { await page.screenshot(...); await page.close(); return true }
\* catch { ...; await page.close(); return false }
Screenshot ==
    /\ pc = "screenshot"
    /\ \E ok \in BOOLEAN :
         pc' = IF ok THEN "closeAfterShot" ELSE "closeAfterShotFailure"
    /\ UNCHANGED <<tsFrame, browserVars, pages, loopVars, thrown, filename>>

\* the page.close() inside the try block: its own error is caught by the
\* same catch block
ClosePageAfterScreenshot ==
    /\ pc = "closeAfterShot"
    /\ \E ok \in BOOLEAN :
         IF ok
         THEN /\ pages' = pages \ {i + 1}
              /\ Return(TRUE)
         ELSE /\ pc' = "closeAfterShotFailure"
              /\ UNCHANGED <<pages, loopVars, filename>>
    /\ UNCHANGED <<tsFrame, browserVars, thrown>>

\* the page.close() of the screenshot catch block, then return false
ClosePageAfterScreenshotFailure ==
    /\ pc = "closeAfterShotFailure"
    /\ \E ok \in BOOLEAN :
         IF ok
         THEN /\ pages' = pages \ {i + 1}
              /\ Return(FALSE)
              /\ thrown' = thrown
         ELSE /\ Throw("pageClose")
              /\ UNCHANGED <<pages, loopVars, filename>>
    /\ UNCHANGED <<tsFrame, browserVars>>

\* ------------------------------------------------------------------------
\* The end of main
\* ------------------------------------------------------------------------

endFrame == <<cfgVars, fileRead, urls, pages, loopVars, filename, fnVars>>

\* a close placed after the loop instead of in a finally block
BrowserCloseAfterLoopOnly ==
    /\ pc = "finally"
    /\ IF thrown = "none"
       THEN /\ closeCount' = closeCount + 1
            /\ browser' = "closed"
            /\ \E ok \in BOOLEAN :
                 IF ok THEN pc' = "summary" /\ thrown' = thrown
                 ELSE pc' = "catch" /\ thrown' = "browserClose"
       ELSE /\ pc' = "catch"
            /\ UNCHANGED <<closeCount, browser, thrown>>
    /\ UNCHANGED <<endFrame, exitCode, openedAfterClose, summaryPrinted>>

\* a finally block that ends in the summary whatever was thrown
BrowserCloseThenSummary ==
    /\ pc = "finally"
    /\ closeCount' = closeCount + 1
    /\ browser' = "closed"
    /\ pc' = "summary"
    /\ UNCHANGED <<endFrame, exitCode, openedAfterClose, summaryPrinted, thrown>>

\* finally { await browser.close() }: an error of the loop goes on to the
\* caller after it, an error of close itself replaces it
BrowserClose ==
    /\ pc = "finally"
    /\ closeCount' = closeCount + 1
    /\ browser' = "closed"
    /\ \E ok \in BOOLEAN :
         IF ok
         THEN /\ pc' = IF thrown = "none" THEN "summary" ELSE "catch"
              /\ thrown' = thrown
         ELSE /\ pc' = "catch"
              /\ thrown' = "browserClose"
    /\ UNCHANGED <<endFrame, exitCode, openedAfterClose, summaryPrinted>>

\* the summary; main resolves and the process ends with status 0
PrintSummary ==
    /\ pc = "summary"
    /\ summaryPrinted' = TRUE
    /\ Exit(0)
    /\ UNCHANGED <<endFrame, browserVars, thrown>>

\* main().catch(error => { console.error(...); process.exit(1) })
TopLevelCatch ==
    /\ pc = "catch"
    /\ Exit(1)
    /\ UNCHANGED <<endFrame, browserVars, thrown, summaryPrinted>>

\* ------------------------------------------------------------------------
\* The run of the script
\* ------------------------------------------------------------------------

NoInput == [label |-> <<>>, trimLength |-> NaN, index |-> 1,
            widthText |-> <<>>, heightText |-> <<>>]

Init ==
    /\ pc = "check"
    /\ argv \in [trim : TrimValues, delay : DelayValues, width : WidthValues,
                 height : HeightValues, name : NameValues]
    /\ source \in Sources
    /\ fileRead = FALSE
    /\ urls = <<>>
    /\ exitCode = 0
    /\ browser = "none"
    /\ closeCount = 0
    /\ pages = {}
    /\ openedAfterClose = FALSE
    /\ i = 0
    /\ started = <<>>
    /\ returned = <<>>
    /\ pauses = <<>>
    /\ successCount = 0
    /\ errorCount = 0
    /\ thrown = "none"
    /\ filename = <<>>
    /\ summaryPrinted = FALSE
    /\ fnIn = NoInput
    /\ fnOp = "none"
    /\ fnOut = <<>>

Next ==
    \/ Check
    \/ ValidateWidth
    \/ ReadUrls
    \/ Launch
    \/ LoopHead
    \/ NewPage
    \/ SetViewport
    \/ Goto
    \/ ClosePageAfterGotoFailure
    \/ ScrollPage
    \/ SettleWait
    \/ BuildFilename
    \/ Screenshot
    \/ ClosePageAfterScreenshot
    \/ ClosePageAfterScreenshotFailure
    \/ Sleep
    \/ BrowserClose
    \/ PrintSummary
    \/ TopLevelCatch

Spec == Init /\ [][Next]_vars

\* ------------------------------------------------------------------------
\* The functions of the filename on their own: trimValue, the sanitizing
\* replace chain and the whole filename, applied to chosen arguments
\* ------------------------------------------------------------------------

TitleLabels ==
    { <<>>,
      <<"a", " ", " ", "b">>,
      <<"a", "\t", " ", "b", "!">>,
      <<"H", "i", ",", " ", "y", "o", "u", "!">>,
      <<"h", "t", "t", "p", " ", "s", "t", "a", "t", "u", "s">>,
      <<"R", "e", "p", "o", "r", "t", " ", "2", "0", "2", "4">> }

UrlBases ==
    { <<"h", "t", "t", "p", ":", "/", "/", "w", "w", "w", ".", "a", "b", ".", "c", "/">>,
      <<"h", "t", "t", "p", "s", ":", "/", "/", "x", "w", "w", "w", ".", "a", "b", "/">>,
      <<"h", "t", "t", "p", ":", "/", "/", "m", ".", "w", "w", "w", ".", "a", "/">>,
      <<"h", "t", "t", "p", ":", "/", "/", "w", "w", "w", ".", "a", "b", "c", "d", "e", ".", "f", "/">>,
      <<"h", "t", "t", "p", ":", "/", "/", "w", "w", "w", ".", "a", "b", "c", "d", "e", "f", "g", "h", ".", "i", "j", "/">>,
      <<"h", "t", "t", "p", ":", "/", "/", "A", "B", ".", "c", "d", "/">>,
      <<"H", "T", "T", "P", ":", "/", "/", "a", "b", ".", "c", "d", "/">>,
      <<"h", "t", "t", "p", "s", ":", "/", "/", "u", "@", "a", "b", ".", "c", "d", ":", "8", "0", "/">>,
      <<"h", "t", "t", "p", ":", "/", "/", "a", " ", "b", "/">> }

PadLens == {0, 3, LongPad}

Labels ==
    TitleLabels
      \cup {b \o Rep(<<"p">>, k) : b \in UrlBases, k \in PadLens}
      \cup {Rep(<<"T", " ">>, k) : k \in PadLens}

FnTrims == {Num(TrimMin), Num(TrimMin + 4), Num(TrimMax)}

FnIndexes == {1, 42, 12345}

\* decimal texts of viewport numbers; a JavaScript number prints up to 21
\* digits before it switches to exponent notation
NumberTexts == {StringOfNumber(1024), <<"1">> \o Rep(<<"0">>, 20)}

FnInputs == [label : Labels, trimLength : FnTrims, index : FnIndexes,
             widthText : NumberTexts, heightText : NumberTexts]

ApplyTrimValue ==
    /\ pc = "fn" /\ fnOp = "none"
    /\ fnOp' = "trimValue"
    /\ fnOut' = trimValue(fnIn.label, fnIn.trimLength)
    /\ UNCHANGED <<pc, cfgVars, fileRead, urls, exitCode, browserVars, pages, loopVars,
                   thrown, filename, summaryPrinted, fnIn>>

ApplySanitize ==
    /\ pc = "fn" /\ fnOp = "none"
    /\ fnOp' = "sanitize"
    /\ fnOut' = Sanitize(fnIn.label)
    /\ UNCHANGED <<pc, cfgVars, fileRead, urls, exitCode, browserVars, pages, loopVars,
                   thrown, filename, summaryPrinted, fnIn>>

ApplyFilename ==
    /\ pc = "fn" /\ fnOp = "none"
    /\ fnOp' = "filename"
    /\ fnOut' = Filename(fnIn.label, fnIn.trimLength, fnIn.index,
                         fnIn.widthText, fnIn.heightText)
    /\ UNCHANGED <<pc, cfgVars, fileRead, urls, exitCode, browserVars, pages, loopVars,
                   thrown, filename, summaryPrinted, fnIn>>

InitFn ==
    /\ pc = "fn"
    /\ argv = [trim |-> Num(TrimMax), delay |-> Num(0), width |-> Num(1024),
               height |-> Undef, name |-> "title"]
    /\ source = [readable |-> FALSE, content |-> <<>>]
    /\ fileRead = FALSE
    /\ urls = <<>>
    /\ exitCode = 0
    /\ browser = "none"
    /\ closeCount = 0
    /\ pages = {}
    /\ openedAfterClose = FALSE
    /\ i = 0
    /\ started = <<>>
    /\ returned = <<>>
    /\ pauses = <<>>
    /\ successCount = 0
    /\ errorCount = 0
    /\ thrown = "none"
    /\ filename = <<>>
    /\ summaryPrinted = FALSE
    /\ fnIn \in FnInputs
    /\ fnOp = "none"
    /\ fnOut = <<>>

NextFn ==
    \/ ApplyTrimValue
    \/ ApplySanitize
    \/ ApplyFilename

SpecFn == InitFn /\ [][NextFn]_vars

\* ------------------------------------------------------------------------
\* Properties
\* ------------------------------------------------------------------------

\* the sequence 1, 2, ..., n
UpTo(n) == [k \in 1..n |-> k]

Launched == browser # "none"

\* main has left the loop normally: nothing was thrown out of it
LoopCompleted == Launched /\ thrown = "none" /\ pc \in {"finally", "summary", "exit"}

InTakeScreenshot ==
    pc \in {"newPage", "setViewport", "goto", "closeAfterGoto", "scroll", "settle",
            "title", "screenshot", "closeAfterShot", "closeAfterShotFailure"}

TrimInRange(t) == t.kind = "num" /\ TrimMin <= t.v /\ t.v <= TrimMax

\* C1: a navigation (goto) or capture (screenshot) failure never leaves
\* takeScreenshot, URLs are started in list order, and a loop that no other
\* error aborted has started takeScreenshot for every URL of the list.
C1_FailedUrlDoesNotAbortBatch ==
    /\ thrown \notin {"goto", "screenshot"}
    /\ started = UpTo(Len(started))
    /\ LoopCompleted => started = UpTo(Len(urls))

\* a run of three URLs whose first URL failed and whose later URLs were
\* still processed
C1_Witness ==
    /\ pc = "exit" /\ LoopCompleted
    /\ Len(urls) = 3 /\ started = <<1, 2, 3>>
    /\ returned[1] = FALSE /\ returned[3] = TRUE

\* C2: once launch returned, browser.close is called exactly once before the
\* process ends, on the normal path and on every path of an uncaught error,
\* and no page is opened after the close.
C2_BrowserClosedExactlyOnce ==
    /\ closeCount <= 1
    /\ (closeCount = 1) = (browser = "closed")
    /\ (pc \in {"summary", "catch", "exit"} /\ Launched) => closeCount = 1
    /\ ~openedAfterClose

\* a run that an uncaught error of an iteration aborted, ended, browser closed
C2_Witness ==
    /\ pc = "exit" /\ Launched
    /\ thrown \in {"newPage", "setViewport", "scroll", "settle", "title", "pageClose"}
    /\ closeCount = 1

\* C3: whichever step fails after the page was opened (setViewport, goto,
\* the scroll script, the settle wait, page.title, screenshot), the page is
\* closed by page.close when takeScreenshot is left.
C3_PageClosedWhicheverStepFails ==
    (~InTakeScreenshot
       /\ thrown \in {"none", "setViewport", "goto", "scroll", "settle", "title", "screenshot"})
      => pages = {}

\* C4 as stated: every run that launched the browser prints the summary
\* before the process exits, a run whose loop an error aborted included
\* (stated for the runs in which browser.close itself returned).
C4_SummaryOnEveryRun ==
    (pc = "exit" /\ Launched /\ thrown # "browserClose") => summaryPrinted

\* C4 as amended: of the runs that launched the browser, exactly those whose
\* loop completed and whose browser.close returned print the summary; they
\* exit with status 0 after every URL was counted, the others with status 1.
C4_SummaryIffLoopCompleted ==
    /\ summaryPrinted => pc = "exit"
    /\ (pc = "exit" /\ Launched) =>
         /\ summaryPrinted = (thrown = "none")
         /\ summaryPrinted => (exitCode = 0 /\ Len(returned) = Len(urls))
         /\ ~summaryPrinted => exitCode = 1

\* a completed run with a failed URL that printed the summary
C4_Witness == pc = "exit" /\ summaryPrinted /\ errorCount >= 1 /\ Len(urls) >= 2

\* C5: the source file is read (and the browser launched) only with trim a
\* number within [8,200], delay a number >= 0 and width a number >= 1.
C5_ValidatedBeforeAnyWork ==
    (fileRead \/ Launched) =>
      /\ TrimInRange(argv.trim)
      /\ argv.delay.kind = "num" /\ argv.delay.v >= 0
      /\ argv.width.kind = "num" /\ argv.width.v >= 1

\* the value of a string of decimal digits
RECURSIVE DecimalValue(_)
DecimalValue(ds) ==
    IF ds = <<>> THEN 0
    ELSE 10 * DecimalValue(SubSeq(ds, 1, Len(ds) - 1))
           + (CHOOSE d \in 0..9 : Digits[d + 1] = ds[Len(ds)])

\* the filename before trimming to the length limit
UncutMiddle ==
    WithDimensions(Sanitize(trimValue(fnIn.label, fnIn.trimLength)),
                   fnIn.widthText, fnIn.heightText)

\* C6: with a trim bound in [8,200] the filename has at most 255
\* characters, starts with the whole index, zero-padded to four digits, and
\* "_", ends with ".png", and what lies between is a prefix of the sanitized
\* label with its dimensions.
C6_FilenameFits ==
    (fnOp = "filename" /\ TrimInRange(fnIn.trimLength)) =>
      LET n      == IndexOf(fnOut, <<"_">>) - 1
          prefix == Slice(fnOut, 1, n)
          middle == Slice(fnOut, n + 2, Len(fnOut) - Len(Png))
      IN  /\ Len(fnOut) <= MAX_FILENAME_LENGTH
          /\ n >= PadWidth
          /\ \A k \in 1..n : IsDigit(prefix[k])
          /\ DecimalValue(prefix) = fnIn.index
          /\ n > PadWidth => prefix[1] # "0"
          /\ EndsWith(fnOut, Png)
          /\ StartsWith(UncutMiddle, middle)

\* a filename that had to be cut
C6_Witness ==
    /\ fnOp = "filename" /\ TrimInRange(fnIn.trimLength)
    /\ Len(UncutMiddle) + Len(StringOfNumber(fnIn.index)) + 1 + Len(Png) > MAX_FILENAME_LENGTH
    /\ fnIn.index > 9999
    /\ Len(fnOut) <= MAX_FILENAME_LENGTH

\* a URL label, as trimValue recognises one
IsUrlLabel(value) == StartsWith(value, Http) /\ UrlHostname(value).ok

StripLeadingWww(hostname) ==
    IF StartsWith(hostname, Www) THEN Slice(hostname, Len(Www) + 1, Len(hostname))
    ELSE hostname

\* C7: a label within the bound is returned unchanged; a longer URL label
\* whose host name fits the bound gives the host name without a leading
\* "www." and with nothing else removed; a label that is no URL, or whose
\* host does not fit even without "www.", is cut to the bound.
C7_HostWithoutLeadingWww ==
    (fnOp = "trimValue" /\ TrimInRange(fnIn.trimLength)) =>
      LET value == fnIn.label
          bound == fnIn.trimLength.v
          host  == UrlHostname(value).hostname
      IN  IF Len(value) <= bound THEN fnOut = value
          ELSE IF IsUrlLabel(value) /\ Len(host) <= bound
               THEN fnOut = StripLeadingWww(host)
          ELSE IF IsUrlLabel(value) /\ Len(StripLeadingWww(host)) <= bound
               THEN TRUE
          ELSE fnOut = Slice(value, 1, bound)

\* C8: every run of whitespace becomes one underscore, every other
\* character outside [A-Za-z0-9] becomes one underscore, the alphanumeric
\* characters stay in order.
C8_WhitespaceRunsCollapsed ==
    fnOp = "sanitize" => fnOut = ReplaceNonAlnum(ReplaceWhitespaceRuns(fnIn.label))

\* C9: main pauses only with a delay > 0, pause k comes after URL k has
\* returned and before URL k+1 is started, never after the last URL, and a
\* completed loop over N URLs has paused N-1 times (0 when N <= 1, 0 with no
\* positive delay).
C9_PausesBetweenUrls ==
    /\ pauses = UpTo(Len(pauses))
    /\ ~JsGt(argv.delay, Num(0)) => pauses = <<>>
    /\ Len(pauses) <= Len(returned)
    /\ Len(pauses) < Len(urls) \/ pauses = <<>>
    /\ JsGt(argv.delay, Num(0)) => Len(started) <= Len(pauses) + 1
    /\ pc = "sleep" => (Len(returned) = i + 1 /\ Len(started) = i + 1 /\ Len(pauses) = i)
    /\ LoopCompleted =>
         Len(pauses) = IF JsGt(argv.delay, Num(0)) /\ Len(urls) >= 1
                       THEN Len(urls) - 1 ELSE 0

\* three URLs, the first failed, two pauses
C9_Witness ==
    /\ pc = "exit" /\ LoopCompleted
    /\ Len(urls) = 3 /\ pauses = <<1, 2>>
    /\ returned[1] = FALSE

\* the lines of the file that are URLs: neither blank nor a comment
UrlLineCount(content) ==
    LET lines == Split(content)
    IN  Cardinality({k \in 1..Len(lines) :
                       /\ \E j \in 1..Len(lines[k]) : ~IsSpace(lines[k][j])
                       /\ Head(TrimLeft(lines[k])) # "#"})

\* C10: successCount + errorCount is the number of takeScreenshot calls that
\* returned, errorCount the number that returned false, no URL is started
\* twice, and after a completed loop the two counters add up to the number of
\* URL lines of the source (0 and 0 for a source of blank and comment lines).
C10_CountersMatchOutcomes ==
    Launched =>
      /\ successCount + errorCount = Len(returned)
      /\ errorCount = Cardinality({k \in 1..Len(returned) : ~returned[k]})
      /\ started = UpTo(Len(started))
      /\ Len(returned) <= Len(started) /\ Len(started) <= Len(returned) + 1
      /\ LoopCompleted =>
           /\ successCount + errorCount = Len(urls)
           /\ Len(urls) = UrlLineCount(source.content)

\* a completed run with successes and failures
C10_Witness ==
    /\ pc = "exit" /\ LoopCompleted
    /\ successCount >= 1 /\ errorCount >= 2

====
